---- MODULE Spec2Model ----
(***************************************************************************)
(* web_to_pdf.py: main -> capture_webpage (two renders of one fetched      *)
(* page, merge_pdfs) -> add_header_footer.  Every invocation is a record   *)
(* in proc; the working directory is the shared file system fs, a function *)
(* from path (a sequence of path components) to the page sequence of the   *)
(* PDF stored there.  Each await / library call that can raise has one     *)
(* action for its normal return and one for the exception.                 *)
(***************************************************************************)
EXTENDS Integers, Sequences, FiniteSets, TLC

VARIABLES proc, fs, clock

vars == <<proc, fs, clock>>

(* ---------------------------- bounds ---------------------------------- *)

\* Largest page count the renderer returns for one surface.
MaxPages == 3

\* Largest value of the wall clock read by datetime.now().
MaxClock == 1

(* ------------------------ program constants --------------------------- *)

ScaleMin == 10

ScaleMax == 200

DefaultWidth == 1280

DefaultHeight == 800

(* ---------------------------- inputs ---------------------------------- *)

ScaleInputs == {0 - 1, 9, 10, 100, 200, 201}

UrlInputs ==
    { [netloc |-> "example.com", path |-> "/"],
      [netloc |-> "example.org", path |-> "/a"] }

\* --output: absent (falsy), a file of the working directory, a file elsewhere
OutputInputs == { <<>>, <<"a.pdf">>, <<"out", "b.pdf">> }

(* ------------------------- file system -------------------------------- *)

Exists(path) == path \in DOMAIN fs

WriteFile(f, path, doc) == (path :> doc) @@ f

RemoveFile(f, path) == [q \in (DOMAIN f) \ {path} |-> f[q]]

Basename(path) == path[Len(path)]

(* ------------------------ names of artifacts -------------------------- *)

TempPdfName(output) == << "temp_" \o Basename(output) >>

FirstPagePdf(output_path) == << "first_page_" \o Basename(output_path) >>

RestPagesPdf(output_path) == << "rest_pages_" \o Basename(output_path) >>

OverlayPdf(page_num) == << "overlay_" \o ToString(page_num) \o ".pdf" >>

DefaultOutput(url, now) == << url.netloc \o "_" \o ToString(now) \o ".pdf" >>

(* --------------------------- pure parts ------------------------------- *)

\* variant: the lower end of the range excluded
ValidScale_exclusive(scale) == ScaleMin < scale /\ scale <= ScaleMax

ValidScale(scale) == ScaleMin <= scale /\ scale <= ScaleMax

\* int(viewport * scale / 100) for the non-negative values that pass validation
ScaledViewport(width, height, scale) ==
    [width |-> (width * scale) \div 100, height |-> (height * scale) \div 100]

\* what one surface renders to: pages 1..n of the content, the header shown
\* unless the surface's DOM had it hidden
Rendered(surface, dom, n) ==
    [k \in 1..n |->
        [content |-> [surface |-> surface, n |-> k, header |-> "hide" \notin dom],
         stamps |-> <<>>]]

RECURSIVE AddPages(_, _, _, _)
\* for page_num in range(from, upto): writer.add_page(pages[page_num])
\* (page_num is 0-based, the sequence is 1-based)
AddPages(writer, pages, from, upto) ==
    IF from >= upto THEN writer
    ELSE AddPages(Append(writer, pages[from + 1]), pages, from + 1, upto)

\* variant: the rest loop starts at page_num 0
MergedPages_noskip(f, first_page_pdf, rest_pages_pdf) ==
    LET w1 == IF first_page_pdf \in DOMAIN f /\ Len(f[first_page_pdf]) > 0
              THEN << f[first_page_pdf][1] >>
              ELSE << >>
    IN  IF rest_pages_pdf \in DOMAIN f
        THEN AddPages(w1, f[rest_pages_pdf], 0, Len(f[rest_pages_pdf]))
        ELSE w1

\* variant: the page taken from the first render is its last one
MergedPages_lastOfFirst(f, first_page_pdf, rest_pages_pdf) ==
    LET w1 == IF first_page_pdf \in DOMAIN f /\ Len(f[first_page_pdf]) > 0
              THEN << f[first_page_pdf][Len(f[first_page_pdf])] >>
              ELSE << >>
    IN  IF rest_pages_pdf \in DOMAIN f
        THEN AddPages(w1, f[rest_pages_pdf], 1, Len(f[rest_pages_pdf]))
        ELSE w1

\* variant: every page of the first render is added
MergedPages_allOfFirst(f, first_page_pdf, rest_pages_pdf) ==
    LET w1 == IF first_page_pdf \in DOMAIN f
              THEN f[first_page_pdf]
              ELSE << >>
    IN  IF rest_pages_pdf \in DOMAIN f
        THEN AddPages(w1, f[rest_pages_pdf], 1, Len(f[rest_pages_pdf]))
        ELSE w1

\* merge_pdfs: the pages handed to the writer
MergedPages(f, first_page_pdf, rest_pages_pdf) ==
    LET w1 == IF first_page_pdf \in DOMAIN f /\ Len(f[first_page_pdf]) > 0
              THEN << f[first_page_pdf][1] >>
              ELSE << >>
    IN  IF rest_pages_pdf \in DOMAIN f
        THEN AddPages(w1, f[rest_pages_pdf], 1, Len(f[rest_pages_pdf]))
        ELSE w1

\* variant: the footer carries the 0-based page_num
Stamp_zeroBased(url, timestamp, page_num, total) ==
    [url |-> url, fetched |-> timestamp, page |-> page_num, total |-> total]

\* the header and footer drawn on the canvas of page page_num (0-based)
Stamp(url, timestamp, page_num, total) ==
    [url |-> url, fetched |-> timestamp, page |-> page_num + 1, total |-> total]

OverlayPage(stamp) ==
    [content |-> [surface |-> "overlay", n |-> 0, header |-> FALSE],
     stamps |-> << stamp >>]

\* page.merge_page(overlay_page): the overlay's drawing goes on top
MergePage(page, overlay_page) ==
    [page EXCEPT !.stamps = @ \o overlay_page.stamps]

(* ------------------------- exceptions --------------------------------- *)

Raise(p, err) ==
    [p EXCEPT !.error = err,
              !.firstFatal = IF @ = "none" THEN err ELSE @]

(* --------------------------- steps ------------------------------------ *)

\* lines 57-83: the awaits between the launch and the try block
SetupSteps ==
    << "new_context", "new_page_fetch", "goto", "content", "new_page_first",
       "new_page_rest", "set_content_first", "set_content_rest", "close_fetch" >>

\* lines 173-285: the awaits of the try block before the two renders
FilterSteps ==
    << [name |-> "popups", surface |-> "first", mutation |-> "popups"],
       [name |-> "popups", surface |-> "rest", mutation |-> "popups"],
       [name |-> "wait_for_timeout", surface |-> "first", mutation |-> "none"],
       [name |-> "wait_for_timeout", surface |-> "rest", mutation |-> "none"],
       [name |-> "wait_for_load_state", surface |-> "first", mutation |-> "none"],
       [name |-> "wait_for_load_state", surface |-> "rest", mutation |-> "none"],
       [name |-> "resize", surface |-> "first", mutation |-> "resize"],
       [name |-> "resize", surface |-> "rest", mutation |-> "resize"],
       [name |-> "tag", surface |-> "first", mutation |-> "tag"],
       [name |-> "hide", surface |-> "rest", mutation |-> "hide"] >>

\* the content-filter mutations of the pipeline
FilterMutations == {"adblock", "popups", "resize", "tag", "hide"}

(* ---------------------------- Init ------------------------------------ *)

NewProc(url, output, scale) ==
    [pc |-> "validate",
     url |-> url, output |-> output, scale |-> scale,
     width |-> DefaultWidth, height |-> DefaultHeight,
     timestamp |-> 0 - 1, temp_pdf |-> <<>>,
     error |-> "none", firstFatal |-> "none", warnings |-> {},
     playwright |-> "off", browser |-> "none", closeCalls |-> 0,
     viewport |-> [width |-> 0, height |-> 0],
     pages |-> {}, loaded |-> {}, cached |-> "",
     dom |-> [s \in {"first", "rest"} |-> {}],
     step |-> 0,
     reader |-> <<>>, writer |-> <<>>, page_num |-> 0,
     ran |-> {}, wrote |-> {}, removeFailed |-> {}]

Init ==
    /\ proc \in [{1} -> {NewProc(u, o, s) :
                           u \in UrlInputs, o \in OutputInputs, s \in ScaleInputs}]
    /\ fs = << >>
    /\ clock = 0

(* ---------------------------- main ------------------------------------ *)

\* the wall clock advances on its own
Tick ==
    /\ clock < MaxClock
    /\ clock' = clock + 1
    /\ UNCHANGED <<proc, fs>>

\* lines 427-429
ValidateOk(i) ==
    /\ proc[i].pc = "validate"
    /\ ValidScale(proc[i].scale)
    /\ proc' = [proc EXCEPT ![i].pc = "default_output"]
    /\ UNCHANGED <<fs, clock>>

ValidateFail(i) ==
    /\ proc[i].pc = "validate"
    /\ ~ValidScale(proc[i].scale)
    /\ proc' = [proc EXCEPT ![i] = [Raise(@, "BadParameter") EXCEPT !.pc = "done"]]
    /\ UNCHANGED <<fs, clock>>

\* lines 431-435
DefaultName(i) ==
    /\ proc[i].pc = "default_output"
    /\ proc' = [proc EXCEPT ![i].pc = "timestamp",
                            ![i].output = IF @ = <<>>
                                          THEN DefaultOutput(proc[i].url, clock)
                                          ELSE @]
    /\ UNCHANGED <<fs, clock>>

\* lines 437-441
TakeTimestamp(i) ==
    /\ proc[i].pc = "timestamp"
    /\ proc' = [proc EXCEPT ![i].pc = "launch",
                            ![i].timestamp = clock,
                            ![i].temp_pdf = TempPdfName(proc[i].output)]
    /\ UNCHANGED <<fs, clock>>

(* ----------------------- capture_webpage ------------------------------ *)

\* the exception leaves `async with async_playwright()` (line 41) and
\* capture_webpage, and arrives at the finally of main
Propagate(p, err) ==
    [Raise(p, err) EXCEPT !.playwright = "stopped", !.pc = "main_finally"]

\* lines 41-43
LaunchOk(i) ==
    /\ proc[i].pc = "launch"
    /\ proc' = [proc EXCEPT ![i].pc = "setup", ![i].step = 1,
                            ![i].playwright = "running",
                            ![i].browser = "launched",
                            ![i].ran = @ \cup {"launch"}]
    /\ UNCHANGED <<fs, clock>>

LaunchFail(i) ==
    /\ proc[i].pc = "launch"
    /\ proc' = [proc EXCEPT ![i] = Propagate(@, "launch")]
    /\ UNCHANGED <<fs, clock>>

\* what the await of one setup step does when it returns
SetupEffect(p, name) ==
    CASE name = "new_context" ->
           [p EXCEPT !.viewport = ScaledViewport(p.width, p.height, p.scale)]
      [] name = "new_page_fetch" -> [p EXCEPT !.pages = @ \cup {"fetch"}]
      [] name = "goto" -> [p EXCEPT !.ran = @ \cup {"goto"}]
      [] name = "content" -> [p EXCEPT !.cached = p.url.netloc \o p.url.path]
      [] name = "new_page_first" -> [p EXCEPT !.pages = @ \cup {"first"}]
      [] name = "new_page_rest" -> [p EXCEPT !.pages = @ \cup {"rest"}]
      [] name = "set_content_first" -> [p EXCEPT !.loaded = @ \cup {"first"}]
      [] name = "set_content_rest" -> [p EXCEPT !.loaded = @ \cup {"rest"}]
      [] name = "close_fetch" -> [p EXCEPT !.pages = @ \ {"fetch"}]

\* lines 57-83, one await at a time
SetupStepOk(i) ==
    /\ proc[i].pc = "setup"
    /\ LET k == proc[i].step
           q == SetupEffect(proc[i], SetupSteps[k])
       IN  proc' = [proc EXCEPT ![i] =
                       IF k < Len(SetupSteps)
                       THEN [q EXCEPT !.step = k + 1]
                       ELSE [q EXCEPT !.pc = "adblock", !.step = 0]]
    /\ UNCHANGED <<fs, clock>>

\* an await of lines 57-83 raises: no try block is open yet, so the
\* browser.close() of line 317 is not on the way out
SetupStepFail(i) ==
    /\ proc[i].pc = "setup"
    /\ proc' = [proc EXCEPT ![i] = Propagate(@, SetupSteps[proc[i].step])]
    /\ UNCHANGED <<fs, clock>>

\* lines 87-123: both add_init_script calls return
AdBlockOk(i) ==
    /\ proc[i].pc = "adblock"
    /\ proc' = [proc EXCEPT ![i].pc = "filter", ![i].step = 1,
                            ![i].dom = [s \in {"first", "rest"} |-> @[s] \cup {"adblock"}]]
    /\ UNCHANGED <<fs, clock>>

\* lines 124-125: one of the add_init_script calls raises, the except
\* clause prints the warning
AdBlockFail(i) ==
    /\ proc[i].pc = "adblock"
    /\ \E failed \in {"first", "rest"} :
         proc' = [proc EXCEPT ![i].pc = "filter", ![i].step = 1,
                              ![i].warnings = @ \cup {"adblock"},
                              ![i].dom = IF failed = "rest"
                                         THEN [@ EXCEPT !["first"] = @ \cup {"adblock"}]
                                         ELSE @]
    /\ UNCHANGED <<fs, clock>>

\* lines 173-285, one await at a time
FilterStepOk(i) ==
    /\ proc[i].pc = "filter"
    /\ LET k == proc[i].step
           st == FilterSteps[k]
           q == IF st.mutation = "none" THEN proc[i]
                ELSE [proc[i] EXCEPT !.dom[st.surface] = @ \cup {st.mutation}]
       IN  proc' = [proc EXCEPT ![i] =
                       IF k < Len(FilterSteps)
                       THEN [q EXCEPT !.step = k + 1]
                       ELSE [q EXCEPT !.pc = "pdf_first", !.step = 0]]
    /\ UNCHANGED <<fs, clock>>

\* an await of lines 173-285 raises: only the try/finally of line 85 is open
FilterStepFail(i) ==
    /\ proc[i].pc = "filter"
    /\ proc' = [proc EXCEPT ![i] =
                   [Raise(@, FilterSteps[proc[i].step].name) EXCEPT !.pc = "browser_close"]]
    /\ UNCHANGED <<fs, clock>>

\* lines 289-300
RenderFirstOk(i) ==
    /\ proc[i].pc = "pdf_first"
    /\ \E n \in 0..MaxPages :
         fs' = WriteFile(fs, FirstPagePdf(proc[i].temp_pdf),
                         Rendered("first", proc[i].dom["first"], n))
    /\ proc' = [proc EXCEPT ![i].pc = "pdf_rest",
                            ![i].wrote = @ \cup {FirstPagePdf(proc[i].temp_pdf)}]
    /\ UNCHANGED clock

RenderFirstFail(i) ==
    /\ proc[i].pc = "pdf_first"
    /\ proc' = [proc EXCEPT ![i] = [Raise(@, "pdf_first") EXCEPT !.pc = "browser_close"]]
    /\ UNCHANGED <<fs, clock>>

\* lines 303-314
RenderRestOk(i) ==
    /\ proc[i].pc = "pdf_rest"
    /\ \E n \in 0..MaxPages :
         fs' = WriteFile(fs, RestPagesPdf(proc[i].temp_pdf),
                         Rendered("rest", proc[i].dom["rest"], n))
    /\ proc' = [proc EXCEPT ![i].pc = "browser_close",
                            ![i].wrote = @ \cup {RestPagesPdf(proc[i].temp_pdf)}]
    /\ UNCHANGED clock

RenderRestFail(i) ==
    /\ proc[i].pc = "pdf_rest"
    /\ proc' = [proc EXCEPT ![i] = [Raise(@, "pdf_rest") EXCEPT !.pc = "browser_close"]]
    /\ UNCHANGED <<fs, clock>>

\* variant: the clause that closes the browser swallows the exception
BrowserClose_swallow(i) ==
    /\ proc[i].pc = "browser_close"
    /\ proc' = [proc EXCEPT ![i].browser = "closed",
                            ![i].closeCalls = @ + 1,
                            ![i].pages = {},
                            ![i].playwright = "stopped",
                            ![i].pc = "merge"]
    /\ UNCHANGED <<fs, clock>>

\* lines 316-318: the finally clause, then the exit of the async with block
BrowserClose(i) ==
    /\ proc[i].pc = "browser_close"
    /\ proc' = [proc EXCEPT ![i].browser = "closed",
                            ![i].closeCalls = @ + 1,
                            ![i].pages = {},
                            ![i].playwright = "stopped",
                            ![i].pc = IF proc[i].error = "none"
                                      THEN "merge" ELSE "main_finally"]
    /\ UNCHANGED <<fs, clock>>

\* lines 321, 341-360
Merge(i) ==
    /\ proc[i].pc = "merge"
    /\ fs' = WriteFile(fs, proc[i].temp_pdf,
                       MergedPages(fs, FirstPagePdf(proc[i].temp_pdf),
                                   RestPagesPdf(proc[i].temp_pdf)))
    /\ proc' = [proc EXCEPT ![i].pc = "cleanup_first",
                            ![i].ran = @ \cup {"merge"},
                            ![i].wrote = @ \cup {proc[i].temp_pdf}]
    /\ UNCHANGED clock

\* PdfReader or the write of line 357 raises
MergeFail(i) ==
    /\ proc[i].pc = "merge"
    /\ proc' = [proc EXCEPT ![i] =
                   [Raise(@, "merge") EXCEPT !.pc = "main_finally",
                                             !.ran = @ \cup {"merge"}]]
    /\ UNCHANGED <<fs, clock>>

\* lines 324-325
CleanupFirst(i) ==
    /\ proc[i].pc = "cleanup_first"
    /\ fs' = RemoveFile(fs, FirstPagePdf(proc[i].temp_pdf))
    /\ proc' = [proc EXCEPT ![i].pc = "cleanup_rest"]
    /\ UNCHANGED clock

\* os.remove of line 325 raises
CleanupFirstFail(i) ==
    /\ proc[i].pc = "cleanup_first"
    /\ Exists(FirstPagePdf(proc[i].temp_pdf))
    /\ proc' = [proc EXCEPT ![i] =
                   [Raise(@, "remove") EXCEPT
                       !.pc = "main_finally",
                       !.removeFailed = @ \cup {FirstPagePdf(proc[i].temp_pdf)}]]
    /\ UNCHANGED <<fs, clock>>

\* lines 326-329
CleanupRest(i) ==
    /\ proc[i].pc = "cleanup_rest"
    /\ fs' = RemoveFile(fs, RestPagesPdf(proc[i].temp_pdf))
    /\ proc' = [proc EXCEPT ![i].pc = "overlay_read"]
    /\ UNCHANGED clock

\* os.remove of line 327 raises
CleanupRestFail(i) ==
    /\ proc[i].pc = "cleanup_rest"
    /\ Exists(RestPagesPdf(proc[i].temp_pdf))
    /\ proc' = [proc EXCEPT ![i] =
                   [Raise(@, "remove") EXCEPT
                       !.pc = "main_finally",
                       !.removeFailed = @ \cup {RestPagesPdf(proc[i].temp_pdf)}]]
    /\ UNCHANGED <<fs, clock>>

(* ------------------------ add_header_footer --------------------------- *)

\* lines 375-376
OverlayRead(i) ==
    /\ proc[i].pc = "overlay_read"
    /\ Exists(proc[i].temp_pdf)
    /\ proc' = [proc EXCEPT ![i].pc = "overlay_loop",
                            ![i].reader = fs[proc[i].temp_pdf],
                            ![i].writer = <<>>,
                            ![i].page_num = 0,
                            ![i].ran = @ \cup {"overlay"}]
    /\ UNCHANGED <<fs, clock>>

\* PdfReader(input_pdf) raises
OverlayReadFail(i) ==
    /\ proc[i].pc = "overlay_read"
    /\ proc' = [proc EXCEPT ![i] =
                   [Raise(@, "overlay_read") EXCEPT !.pc = "main_finally",
                                                    !.ran = @ \cup {"overlay"}]]
    /\ UNCHANGED <<fs, clock>>

\* lines 379-399: the canvas of page page_num is drawn and saved
OverlaySave(i) ==
    /\ proc[i].pc = "overlay_loop"
    /\ proc[i].page_num < Len(proc[i].reader)
    /\ fs' = WriteFile(fs, OverlayPdf(proc[i].page_num),
                 << OverlayPage(Stamp(proc[i].url, proc[i].timestamp,
                                      proc[i].page_num, Len(proc[i].reader))) >>)
    /\ proc' = [proc EXCEPT ![i].pc = "overlay_merge",
                            ![i].wrote = @ \cup {OverlayPdf(proc[i].page_num)}]
    /\ UNCHANGED clock

\* c.save() raises
OverlaySaveFail(i) ==
    /\ proc[i].pc = "overlay_loop"
    /\ proc[i].page_num < Len(proc[i].reader)
    /\ proc' = [proc EXCEPT ![i] = [Raise(@, "overlay_save") EXCEPT !.pc = "main_finally"]]
    /\ UNCHANGED <<fs, clock>>

\* lines 402-407
OverlayMerge(i) ==
    /\ proc[i].pc = "overlay_merge"
    /\ Exists(OverlayPdf(proc[i].page_num))
    /\ Len(fs[OverlayPdf(proc[i].page_num)]) > 0
    /\ proc' = [proc EXCEPT ![i].pc = "overlay_remove",
                            ![i].writer =
                                Append(@, MergePage(proc[i].reader[proc[i].page_num + 1],
                                                    fs[OverlayPdf(proc[i].page_num)][1]))]
    /\ UNCHANGED <<fs, clock>>

\* PdfReader(overlay_pdf) or merge_page raises
OverlayMergeFail(i) ==
    /\ proc[i].pc = "overlay_merge"
    /\ proc' = [proc EXCEPT ![i] = [Raise(@, "overlay_merge") EXCEPT !.pc = "main_finally"]]
    /\ UNCHANGED <<fs, clock>>

\* line 410
OverlayRemove(i) ==
    /\ proc[i].pc = "overlay_remove"
    /\ Exists(OverlayPdf(proc[i].page_num))
    /\ fs' = RemoveFile(fs, OverlayPdf(proc[i].page_num))
    /\ proc' = [proc EXCEPT ![i].pc = "overlay_loop", ![i].page_num = @ + 1]
    /\ UNCHANGED clock

\* os.remove of line 410 raises
OverlayRemoveFail(i) ==
    /\ proc[i].pc = "overlay_remove"
    /\ proc' = [proc EXCEPT ![i] =
                   [Raise(@, "remove") EXCEPT
                       !.pc = "main_finally",
                       !.removeFailed = @ \cup {OverlayPdf(proc[i].page_num)}]]
    /\ UNCHANGED <<fs, clock>>

\* lines 413-416
OverlayWrite(i) ==
    /\ proc[i].pc = "overlay_loop"
    /\ proc[i].page_num >= Len(proc[i].reader)
    /\ fs' = WriteFile(fs, proc[i].output, proc[i].writer)
    /\ proc' = [proc EXCEPT ![i].pc = "main_finally",
                            ![i].wrote = @ \cup {proc[i].output}]
    /\ UNCHANGED clock

\* the open or the write of lines 413-414 raises
OverlayWriteFail(i) ==
    /\ proc[i].pc = "overlay_loop"
    /\ proc[i].page_num >= Len(proc[i].reader)
    /\ proc' = [proc EXCEPT ![i] = [Raise(@, "overlay_write") EXCEPT !.pc = "main_finally"]]
    /\ UNCHANGED <<fs, clock>>

(* ----------------------- the finally of main -------------------------- *)

\* lines 453-456
MainFinally(i) ==
    /\ proc[i].pc = "main_finally"
    /\ fs' = RemoveFile(fs, proc[i].temp_pdf)
    /\ proc' = [proc EXCEPT ![i].pc = "done"]
    /\ UNCHANGED clock

\* os.remove of line 456 raises: its exception is the one that leaves main
MainFinallyFail(i) ==
    /\ proc[i].pc = "main_finally"
    /\ Exists(proc[i].temp_pdf)
    /\ proc' = [proc EXCEPT ![i] =
                   [Raise(@, "remove") EXCEPT
                       !.pc = "done",
                       !.removeFailed = @ \cup {proc[i].temp_pdf}]]
    /\ UNCHANGED <<fs, clock>>

Next ==
    \/ Tick
    \/ \E i \in DOMAIN proc :
        \/ ValidateOk(i)
        \/ ValidateFail(i)
        \/ DefaultName(i)
        \/ TakeTimestamp(i)
        \/ LaunchOk(i)
        \/ LaunchFail(i)
        \/ SetupStepOk(i)
        \/ SetupStepFail(i)
        \/ AdBlockOk(i)
        \/ AdBlockFail(i)
        \/ FilterStepOk(i)
        \/ FilterStepFail(i)
        \/ RenderFirstOk(i)
        \/ RenderFirstFail(i)
        \/ RenderRestOk(i)
        \/ RenderRestFail(i)
        \/ BrowserClose(i)
        \/ Merge(i)
        \/ MergeFail(i)
        \/ CleanupFirst(i)
        \/ CleanupFirstFail(i)
        \/ CleanupRest(i)
        \/ CleanupRestFail(i)
        \/ OverlayRead(i)
        \/ OverlayReadFail(i)
        \/ OverlaySave(i)
        \/ OverlaySaveFail(i)
        \/ OverlayMerge(i)
        \/ OverlayMergeFail(i)
        \/ OverlayRemove(i)
        \/ OverlayRemoveFail(i)
        \/ OverlayWrite(i)
        \/ OverlayWriteFail(i)
        \/ MainFinally(i)
        \/ MainFinallyFail(i)

Spec == Init /\ [][Next]_vars

(* ------------------------------ claims -------------------------------- *)

Done(i) == proc[i].pc = "done"

\* the state right after merge_pdfs returned: both renders and the merged
\* document are on disk
Merged(i) ==
    /\ proc[i].pc = "cleanup_first"
    /\ Exists(FirstPagePdf(proc[i].temp_pdf))
    /\ Exists(RestPagesPdf(proc[i].temp_pdf))
    /\ Exists(proc[i].temp_pdf)

FirstRender(i) == fs[FirstPagePdf(proc[i].temp_pdf)]

RestRender(i) == fs[RestPagesPdf(proc[i].temp_pdf)]

MergedDoc(i) == fs[proc[i].temp_pdf]

Max(a, b) == IF a >= b THEN a ELSE b

\* the temporary artifacts of one invocation
TempArtifacts(i) ==
    { OverlayPdf(k) : k \in 0..(MaxPages + 1) }
      \cup (IF proc[i].temp_pdf = <<>> THEN {}
            ELSE { proc[i].temp_pdf, FirstPagePdf(proc[i].temp_pdf),
                   RestPagesPdf(proc[i].temp_pdf) })

\* C1: with F first-render pages and R >= 1 rest-render pages the merged
\* document has 1 + max(R-1, 0) pages when F >= 1 and max(R-1, 0) pages
\* when F = 0.
C1_MergePageCount ==
    \A i \in DOMAIN proc :
        (Merged(i) /\ Len(RestRender(i)) >= 1) =>
            Len(MergedDoc(i)) =
                IF Len(FirstRender(i)) >= 1
                THEN 1 + Max(Len(RestRender(i)) - 1, 0)
                ELSE Max(Len(RestRender(i)) - 1, 0)

\* C1 witness: F >= 1 and R = 1 merged into exactly one page.
C1_Witness ==
    \E i \in DOMAIN proc :
        /\ Merged(i)
        /\ Len(FirstRender(i)) >= 1
        /\ Len(RestRender(i)) = 1
        /\ Len(MergedDoc(i)) = 1

\* C2: the merged document is page 1 of the first render (header visible)
\* followed by pages 2..R of the rest render (header hidden) in their
\* order; the rest render's page 1 and the first render's later pages do
\* not appear.
C2_MergeSequence ==
    \A i \in DOMAIN proc :
        Merged(i) =>
            LET F == Len(FirstRender(i))
                R == Len(RestRender(i))
                M == MergedDoc(i)
                lead == IF F >= 1 THEN 1 ELSE 0
            IN  /\ Len(M) = lead + Max(R - 1, 0)
                /\ F >= 1 =>
                     /\ M[1] = FirstRender(i)[1]
                     /\ M[1].content = [surface |-> "first", n |-> 1, header |-> TRUE]
                /\ \A k \in 2..R :
                     /\ M[lead + k - 1] = RestRender(i)[k]
                     /\ M[lead + k - 1].content =
                            [surface |-> "rest", n |-> k, header |-> FALSE]

\* C2 witness: a one-page first render merged with a three-page rest render
\* gives content pages 1, 2, 3.
C2_Witness ==
    \E i \in DOMAIN proc :
        /\ Merged(i)
        /\ Len(FirstRender(i)) = 1
        /\ Len(RestRender(i)) = 3
        /\ [k \in 1..Len(MergedDoc(i)) |-> MergedDoc(i)[k].content.n] = <<1, 2, 3>>

\* C3: after an invocation of main has ended, in success or in failure,
\* none of its temporary artifacts is left in the working directory.
C3_NoTempArtifactsRemain ==
    \A i \in DOMAIN proc :
        Done(i) => TempArtifacts(i) \cap DOMAIN fs = {}

\* C4: once the browser was launched, browser.close() has run exactly once
\* when the invocation has ended.
C4_BrowserClosedExactlyOnce ==
    \A i \in DOMAIN proc :
        (Done(i) /\ proc[i].browser # "none") =>
            (proc[i].browser = "closed" /\ proc[i].closeCalls = 1)

\* C5: a scale outside 10..200 ends main with the validation error before
\* the browser is launched or a navigation attempted, with no file written;
\* a scale inside 10..200 passes validation.
C5_ScaleValidation ==
    \A i \in DOMAIN proc :
        IF proc[i].scale < 10 \/ proc[i].scale > 200
        THEN /\ proc[i].pc \in {"validate", "done"}
             /\ Done(i) => proc[i].error = "BadParameter"
             /\ proc[i].playwright = "off"
             /\ proc[i].browser = "none"
             /\ proc[i].ran = {}
             /\ proc[i].wrote = {}
             /\ TempArtifacts(i) \cap DOMAIN fs = {}
        ELSE /\ proc[i].firstFatal # "BadParameter"
             /\ proc[i].error # "BadParameter"

\* C5 witness: main has ended on the validation error for scale 201.
C5_Witness ==
    \E i \in DOMAIN proc :
        Done(i) /\ proc[i].scale = 201 /\ proc[i].error = "BadParameter"

\* the state right after add_header_footer wrote its output
Overlaid(i) ==
    /\ proc[i].pc = "main_finally"
    /\ proc[i].output \in proc[i].wrote
    /\ Exists(proc[i].output)
    /\ Exists(proc[i].temp_pdf)

\* C6: the output of add_header_footer has the pages of its input, in the
\* same order, and page k of N carries one stamp: 'Page k of N', the url
\* and the timestamp of the invocation; zero pages in give zero pages out.
C6_OverlayStamps ==
    \A i \in DOMAIN proc :
        Overlaid(i) =>
            LET in == fs[proc[i].temp_pdf]
                out == fs[proc[i].output]
                N == Len(in)
            IN  /\ Len(out) = N
                /\ proc[i].error = "none"
                /\ \A k \in 1..N :
                     /\ out[k].content = in[k].content
                     /\ out[k].stamps =
                          << [url |-> proc[i].url, fetched |-> proc[i].timestamp,
                              page |-> k, total |-> N] >>

\* C6 witness: a document of three pages was stamped.
C6_Witness ==
    \E i \in DOMAIN proc :
        /\ Overlaid(i)
        /\ Len(fs[proc[i].output]) = 3
        /\ fs[proc[i].output][3].stamps[1].page = 3

\* C7: no failure of a content-filter mutation is fatal: it is never the
\* exception that aborts the capture.
C7_FilterFailureNeverFatal ==
    \A i \in DOMAIN proc :
        /\ proc[i].firstFatal \notin FilterMutations
        /\ proc[i].error \notin FilterMutations

\* C8: when the navigation or one of the two renders failed, the merge and
\* the overlay never run, nothing is written at the output path (nor at the
\* merged temporary path), and the error leaves main.
C8_NavOrRenderFailureIsFatal ==
    \A i \in DOMAIN proc :
        proc[i].firstFatal \in {"goto", "pdf_first", "pdf_rest"} =>
            /\ "merge" \notin proc[i].ran
            /\ "overlay" \notin proc[i].ran
            /\ proc[i].output \notin proc[i].wrote
            /\ proc[i].temp_pdf \notin proc[i].wrote
            /\ ~Exists(proc[i].output)
            /\ proc[i].pc \in {"browser_close", "main_finally", "done"}
            /\ Done(i) => proc[i].error = proc[i].firstFatal

\* C8 witness: the second render failed after the first succeeded, and main
\* has ended.
C8_Witness ==
    \E i \in DOMAIN proc :
        /\ Done(i)
        /\ proc[i].firstFatal = "pdf_rest"
        /\ FirstPagePdf(proc[i].temp_pdf) \in proc[i].wrote

\* C9: a failed deletion of a temporary artifact does not replace an
\* earlier fatal error of the pipeline, and does not keep the other
\* temporary artifacts of the invocation from being deleted.
C9_CleanupFailureIsolated ==
    \A i \in DOMAIN proc :
        Done(i) =>
            /\ proc[i].firstFatal \notin {"none", "remove"} =>
                   proc[i].error = proc[i].firstFatal
            /\ proc[i].firstFatal = "remove" =>
                   (TempArtifacts(i) \cap DOMAIN fs) \subseteq proc[i].removeFailed

\* C10 as stated: whenever the rest render has at least one page, the
\* merged document has as many pages as the rest render, whatever the page
\* count of the first render.
C10_Original ==
    \A i \in DOMAIN proc :
        (Merged(i) /\ Len(RestRender(i)) >= 1) =>
            Len(MergedDoc(i)) = Len(RestRender(i))

\* C10 amended: whenever the rest render and the first render have at
\* least one page each, the merged document has as many pages as the rest
\* render.
C10_MergedLenEqualsRest ==
    \A i \in DOMAIN proc :
        (Merged(i) /\ Len(RestRender(i)) >= 1 /\ Len(FirstRender(i)) >= 1) =>
            Len(MergedDoc(i)) = Len(RestRender(i))

\* C10 witness: a first render of three pages and a rest render of two
\* merged into two pages.
C10_Witness ==
    \E i \in DOMAIN proc :
        /\ Merged(i)
        /\ Len(FirstRender(i)) = 3
        /\ Len(RestRender(i)) = 2
        /\ Len(MergedDoc(i)) = 2

(* ------------------- two invocations, one directory ------------------- *)

\* two invocations started in the same working directory with different
\* output paths: the second one's output has either another file name or
\* the same file name in another directory
Init2 ==
    /\ \E o \in { <<"b.pdf">>, <<"out", "a.pdf">> } :
         proc = [i \in {1, 2} |->
                   IF i = 1
                   THEN NewProc([netloc |-> "example.com", path |-> "/"], <<"a.pdf">>, 100)
                   ELSE NewProc([netloc |-> "example.org", path |-> "/a"], o, 100)]
    /\ fs = << >>
    /\ clock = 0

\* line 375: PdfReader(input_pdf) finds no file at temp_pdf
OverlayInputMissing(i) ==
    /\ ~Exists(proc[i].temp_pdf)
    /\ OverlayReadFail(i)

\* line 402: PdfReader(overlay_pdf) finds no file at overlay_<n>.pdf
OverlayFragmentMissing(i) ==
    /\ ~Exists(OverlayPdf(proc[i].page_num))
    /\ OverlayMergeFail(i)

\* line 410: os.remove(overlay_pdf) finds no file at overlay_<n>.pdf
OverlayRemoveMissing(i) ==
    /\ ~Exists(OverlayPdf(proc[i].page_num))
    /\ OverlayRemoveFail(i)

\* the steps of the invocations interleave at every call; the browser, the
\* renderer and the disk raise nothing of their own, so the only exceptions
\* are those of files that are not there
Next2 ==
    \/ Tick
    \/ \E i \in DOMAIN proc :
        \/ ValidateOk(i)
        \/ DefaultName(i)
        \/ TakeTimestamp(i)
        \/ LaunchOk(i)
        \/ SetupStepOk(i)
        \/ AdBlockOk(i)
        \/ FilterStepOk(i)
        \/ RenderFirstOk(i)
        \/ RenderRestOk(i)
        \/ BrowserClose(i)
        \/ Merge(i)
        \/ CleanupFirst(i)
        \/ CleanupRest(i)
        \/ OverlayRead(i)
        \/ OverlayInputMissing(i)
        \/ OverlaySave(i)
        \/ OverlayMerge(i)
        \/ OverlayFragmentMissing(i)
        \/ OverlayRemove(i)
        \/ OverlayRemoveMissing(i)
        \/ OverlayWrite(i)
        \/ MainFinally(i)

Spec2 == Init2 /\ [][Next2]_vars

\* C11: the temporary artifacts of two concurrent invocations with
\* different output paths have different names (no temporary path is
\* written by both), and each invocation ends as it would alone: without
\* error, its output holding the pages it read from its merged document,
\* each with its own stamp (its url, its timestamp, 'Page k of N').
C11_ConcurrentInvocationsIsolated ==
    /\ \A i, j \in DOMAIN proc :
         i # j =>
            proc[i].wrote \cap proc[j].wrote
                \cap (TempArtifacts(i) \cup TempArtifacts(j)) = {}
    /\ \A i \in DOMAIN proc :
         Done(i) =>
            /\ proc[i].error = "none"
            /\ Exists(proc[i].output)
            /\ LET out == fs[proc[i].output]
                   N == Len(proc[i].reader)
               IN  /\ Len(out) = N
                   /\ \A k \in 1..N :
                        /\ out[k].content = proc[i].reader[k].content
                        /\ out[k].stamps =
                             << [url |-> proc[i].url, fetched |-> proc[i].timestamp,
                                 page |-> k, total |-> N] >>

====
